---- MODULE Spec2Model ----
(***************************************************************************)
(* Model of bin/cli.js: the `create` command of the NestJS application     *)
(* generator.  generateApp runs a fixed sequence of awaited external       *)
(* operations (directory ensures, `nest` and `npm` subprocesses, file      *)
(* reads and writes); every one of them may fail, and a failure rejects    *)
(* the promise chain up to the command action.                             *)
(*                                                                         *)
(* Source texts are sequences of tokens.  The tokens the two regular       *)
(* expressions of the program distinguish are kept apart: the keywords     *)
(* "imports:" and "providers:", whitespace (" " and "nl", both \s),        *)
(* "[", "]", ",", and "x" for any other run of characters.                 *)
(***************************************************************************)
EXTENDS Integers, Sequences, FiniteSets, TLC

VARIABLES
    config,      \* answers of the prompt: modules, database, orm, interceptors
    pc,          \* the await the run is at, or "Done" / "Failed"
    idx,         \* position of the for..of loop over config.modules
    log,         \* external operations attempted so far, in order
    exists,      \* directories and files present under the parent directory
    scaffold,    \* app.module.ts as `nest new` left it
    appModule,   \* current text of src/app.module.ts
    content,     \* text returned by the last readFile of src/app.module.ts
    configFile,  \* current text of src/config/database.config.ts
    interceptorFiles, \* state of the two interceptor source files
    inflight,    \* external operations started and not yet settled
    outcome,     \* what the run has reported: error log line, rejection, success
    src,         \* input text of a patch applied on its own
    out,         \* its result
    applied      \* which patch produced `out`

vars == <<config, pc, idx, log, exists, scaffold, appModule, content,
          configFile, interceptorFiles, inflight, outcome, src, out, applied>>

(***************************************************************************)
(* Bounds                                                                  *)
(***************************************************************************)
MaxModules == 2
MaxSrcLen == 5

(***************************************************************************)
(* Inputs                                                                  *)
(***************************************************************************)
SeqsUpTo(S, n) == UNION {[1..k -> S] : k \in 0..n}

ModuleNames == {"users", "orders"}

Databases == {"Postgres", "MongoDB", "MySQL"}

Orms == {"TypeORM", "Mongoose", "Sequelize"}

Configs ==
    [modules : SeqsUpTo(ModuleNames, MaxModules),
     database : Databases,
     orm : Orms,
     interceptors : BOOLEAN]

Whitespace == {" ", "nl"}

SourceTokens == {"imports:", "providers:", " ", "[", "]", ",", "x"}

Sources == SeqsUpTo(SourceTokens, MaxSrcLen)

AppModuleTemplates ==
    { <<"x", "imports:", " ", "[", "]", ",", "x", "[", "x", "]", ",",
        "providers:", " ", "[", "x", "]", ",", "x">>,
      <<"x", "imports:", " ", "[", "x", ",", "]", ",",
        "providers:", "nl", "[", "]", "x">>,
      <<"x", "imports:", "[", "x", "[", "x", "]", "]", ",",
        "providers:", " ", "[", "x", "[", "x", "]", "]", "x">>,
      <<"x", "providers:", " ", "[", "x", "]", "x">>,
      <<"x", "imports:", " ", "[", "x", "]", "x">>,
      <<"x">> }

(***************************************************************************)
(* Sequence helpers                                                        *)
(***************************************************************************)
Range(s) == {s[i] : i \in DOMAIN s}

NoDuplicates(s) == \A i, j \in DOMAIN s : s[i] = s[j] => i = j

IsPrefix(s, t) == Len(s) <= Len(t) /\ SubSeq(t, 1, Len(s)) = s

(***************************************************************************)
(* Dependency resolution (getDatabaseDependencies)                         *)
(***************************************************************************)
OrmPackages(orm) ==
    CASE orm = "TypeORM" -> <<"typeorm", "@nestjs/typeorm">>
      [] orm = "Mongoose" -> <<"mongoose", "@nestjs/mongoose">>
      [] orm = "Sequelize" ->
            <<"sequelize", "@nestjs/sequelize", "sequelize-typescript">>
      [] OTHER -> <<>>

DriverPackagesAlways(database, orm) ==
    CASE database = "PostgreSQL" -> <<"pg">>
      [] database = "MongoDB" -> <<"mongodb">>
      [] database = "MySQL" -> <<"mysql2">>
      [] OTHER -> <<>>

DriverPackages(database, orm) ==
    CASE database = "PostgreSQL" -> <<"pg">>
      [] database = "MongoDB" ->
            IF orm # "Mongoose" THEN <<"mongodb">> ELSE <<>>
      [] database = "MySQL" -> <<"mysql2">>
      [] OTHER -> <<>>

getDatabaseDependencies(database, orm) ==
    OrmPackages(orm) \o DriverPackages(database, orm)

(***************************************************************************)
(* Configuration templates.  A rendered file is the sequence of its        *)
(* lines, each a key with the text of its value.                           *)
(***************************************************************************)
Line(k, v) == [key |-> k, value |-> v]

toLowerCase(database) ==
    CASE database = "Postgres" -> "postgres"
      [] database = "MongoDB" -> "mongodb"
      [] database = "MySQL" -> "mysql"
      [] OTHER -> database

PortFor(database) == IF database = "PostgreSQL" THEN "5432" ELSE "3306"

getTypeORMConfig(database) ==
    << Line("import", "TypeOrmModuleOptions"),
       Line("type", toLowerCase(database)),
       Line("host", "localhost"),
       Line("port", PortFor(database)),
       Line("username", "your_username"),
       Line("password", "your_password"),
       Line("database", "your_database"),
       Line("entities", "dist/**/*.entity{.ts,.js}"),
       Line("synchronize", "true") >>

getMongooseConfigHostPort ==
    << Line("host", "localhost"),
       Line("port", "27017"),
       Line("database", "your_database") >>

getMongooseConfig ==
    << Line("uri", "mongodb://localhost/your_database"),
       Line("useNewUrlParser", "true"),
       Line("useUnifiedTopology", "true") >>

getSequelizeConfig(database) ==
    << Line("import", "SequelizeModuleOptions"),
       Line("dialect", toLowerCase(database)),
       Line("host", "localhost"),
       Line("port", PortFor(database)),
       Line("username", "your_username"),
       Line("password", "your_password"),
       Line("database", "your_database"),
       Line("autoLoadModels", "true"),
       Line("synchronize", "true") >>

configContentFor(database, orm) ==
    CASE orm = "TypeORM" -> getTypeORMConfig(database)
      [] orm = "Mongoose" -> getMongooseConfig
      [] orm = "Sequelize" -> getSequelizeConfig(database)
      [] OTHER -> <<>>

Keys(text) == {text[i].key : i \in DOMAIN text}

ValueOf(text, k) == (CHOOSE l \in Range(text) : l.key = k).value

(***************************************************************************)
(* String.prototype.replace with /<keyword>\s*\[([\s\S]*?)\]/ : the        *)
(* leftmost keyword that is followed by optional whitespace, "[" and a     *)
(* later "]"; the lazy group ends at the first "]" after the "[".          *)
(***************************************************************************)
RECURSIVE SkipWhitespace(_, _)
SkipWhitespace(s, j) ==
    IF j <= Len(s) /\ s[j] \in Whitespace THEN SkipWhitespace(s, j + 1) ELSE j

OpenAt(s, i) == SkipWhitespace(s, i + 1)

ClosersAfter(s, b) == {k \in (b + 1)..Len(s) : s[k] = "]"}

MatchesAt(s, kw, i) ==
    /\ s[i] = kw
    /\ OpenAt(s, i) <= Len(s)
    /\ s[OpenAt(s, i)] = "["
    /\ ClosersAfter(s, OpenAt(s, i)) # {}

MatchStarts(s, kw) == {i \in DOMAIN s : MatchesAt(s, kw, i)}

Min(S) == CHOOSE m \in S : \A n \in S : m <= n

MatchEnd(s, b) == Min(ClosersAfter(s, b))

replace(s, kw, head, tail) ==
    IF MatchStarts(s, kw) = {} THEN s
    ELSE LET i == Min(MatchStarts(s, kw))
             b == OpenAt(s, i)
             k == MatchEnd(s, b)
         IN  SubSeq(s, 1, i - 1) \o head \o SubSeq(s, b + 1, k - 1) \o tail
               \o SubSeq(s, k + 1, Len(s))

(***************************************************************************)
(* updateAppModuleForDatabase, text part                                   *)
(***************************************************************************)
OrmModule(orm) ==
    CASE orm = "TypeORM" -> "import TypeOrmModule"
      [] orm = "Mongoose" -> "import MongooseModule"
      [] orm = "Sequelize" -> "import SequelizeModule"
      [] OTHER -> ""

DbImportStatement(orm) ==
    IF orm \in Orms THEN <<OrmModule(orm), "nl", "import databaseConfig">>
    ELSE <<>>

ForRootCall(orm) ==
    CASE orm = "TypeORM" -> "TypeOrmModule.forRoot(databaseConfig)"
      [] orm = "Mongoose" -> "MongooseModule.forRoot(databaseConfig.uri)"
      [] orm = "Sequelize" -> "SequelizeModule.forRoot(databaseConfig)"
      [] OTHER -> ""

moduleImport(orm) ==
    IF orm \in Orms THEN <<",", ForRootCall(orm), ",">> ELSE <<>>

prependImportOnce(importStatement, text) ==
    IF IsPrefix(importStatement \o <<"nl">>, text) THEN text
    ELSE importStatement \o <<"nl">> \o text

prependImport(importStatement, text) == importStatement \o <<"nl">> \o text

DbReplacementTail(orm) ==
    <<"nl", " ", " ", " ", " ">> \o moduleImport(orm) \o <<"nl", " ", " ", "]">>

patchForDatabase(text, orm) ==
    replace(prependImport(DbImportStatement(orm), text), "imports:",
            <<"imports:", " ", "[">>, DbReplacementTail(orm))

(***************************************************************************)
(* updateAppModuleForInterceptors, text part                               *)
(***************************************************************************)
InterceptorImportStatement ==
    <<"nl", "import APP_INTERCEPTOR", "nl", "import ResponseInterceptor",
      "nl", "import ErrorInterceptor">>

ResponseRegistration == "{provide: APP_INTERCEPTOR, useClass: ResponseInterceptor}"

ErrorRegistration == "{provide: APP_INTERCEPTOR, useClass: ErrorInterceptor}"

providerStatementsResponseOnly ==
    <<",", "nl", " ", " ", " ", " ", ResponseRegistration, ",">>

providerStatements ==
    <<",", "nl", " ", " ", " ", " ", ResponseRegistration, ",",
      "nl", " ", " ", " ", " ", ErrorRegistration, ",">>

patchForInterceptors(text) ==
    replace(prependImport(InterceptorImportStatement, text), "providers:",
            <<"providers:", " ", "[">>,
            providerStatements \o <<"nl", " ", " ", "]">>)

(***************************************************************************)
(* Control flow of generateApp and its callees                             *)
(***************************************************************************)
Op(st, name, a, dir, ok) ==
    [stage |-> st, op |-> name, arg |-> a, cwd |-> dir, ok |-> ok]

\* A rejected await with no handler around it rejects the caller.
Await(ok, next) == IF ok THEN next ELSE "Failed"

SwallowError(ok, next) == next

\* try { await execPromise(...) } catch (error) { ...; throw error; }
baseStructureOutcome(ok, next) == IF ok THEN next ELSE "Failed"

moduleOutcomeRetryOnce(ok, next) ==
    IF ok THEN next
    ELSE IF log[Len(log)].ok THEN "moduleGen" ELSE "Failed"

moduleOutcome(ok, next) == IF ok THEN next ELSE "Failed"

afterBaseStructure(cfg) ==
    IF Len(cfg.modules) > 0 THEN "moduleEnsureDir" ELSE "install"

afterModuleFirstOnly(cfg, i) == "install"

afterModuleEnsureOnce(cfg, i) ==
    IF i < Len(cfg.modules) THEN "moduleGen" ELSE "install"

afterModule(cfg, i) ==
    IF i < Len(cfg.modules) THEN "moduleEnsureDir" ELSE "install"

afterDatabaseAlwaysInterceptors(cfg) == "icEnsureDir"

afterDatabase(cfg) == IF cfg.interceptors THEN "icEnsureDir" ELSE "Done"

setupDatabasePatchFirst(p, cfg) ==
    CASE p = "install" -> "dbRead"
      [] p = "dbRead" -> "dbWrite"
      [] p = "dbWrite" -> "configEnsureDir"
      [] p = "configEnsureDir" -> "configWrite"
      [] p = "configWrite" -> afterDatabase(cfg)

setupDatabaseNext(p, cfg) ==
    CASE p = "install" -> "configEnsureDir"
      [] p = "configEnsureDir" -> "configWrite"
      [] p = "configWrite" -> "dbRead"
      [] p = "dbRead" -> "dbWrite"
      [] p = "dbWrite" -> afterDatabase(cfg)

generateInterceptorsErrorFirst(p) ==
    CASE p = "icEnsureDir" -> "icGenError"
      [] p = "icGenError" -> "icGenResponse"
      [] p = "icGenResponse" -> "icWriteResponse"
      [] p = "icWriteResponse" -> "icWriteError"
      [] p = "icWriteError" -> "icRead"
      [] p = "icRead" -> "icWrite"
      [] p = "icWrite" -> "Done"

generateInterceptorsOverwriteEarly(p) ==
    CASE p = "icEnsureDir" -> "icGenResponse"
      [] p = "icGenResponse" -> "icWriteResponse"
      [] p = "icWriteResponse" -> "icGenError"
      [] p = "icGenError" -> "icWriteError"
      [] p = "icWriteError" -> "icRead"
      [] p = "icRead" -> "icWrite"
      [] p = "icWrite" -> "Done"

generateInterceptorsNext(p) ==
    CASE p = "icEnsureDir" -> "icGenResponse"
      [] p = "icGenResponse" -> "icGenError"
      [] p = "icGenError" -> "icWriteResponse"
      [] p = "icWriteResponse" -> "icWriteError"
      [] p = "icWriteError" -> "icRead"
      [] p = "icRead" -> "icWrite"
      [] p = "icWrite" -> "Done"

ModulePath(name) ==
    CASE name = "users" -> "src/modules/users"
      [] name = "orders" -> "src/modules/orders"
      [] OTHER -> "src/modules/other"

Terminal == pc \in {"Done", "Failed"}

Steps ==
    {"ensureAppDir", "nestNew", "moduleEnsureDir", "moduleGen", "install",
     "configEnsureDir", "configWrite", "dbRead", "dbWrite", "icEnsureDir",
     "icGenResponse", "icGenError", "icWriteResponse", "icWriteError",
     "icRead", "icWrite"}

\* The statement control reaches when the operation at p settles well.
NextStep(p, cfg, i) ==
    CASE p = "ensureAppDir" -> "nestNew"
      [] p = "nestNew" -> afterBaseStructure(cfg)
      [] p = "moduleEnsureDir" -> "moduleGen"
      [] p = "moduleGen" -> afterModule(cfg, i)
      [] p \in {"install", "configEnsureDir", "configWrite", "dbRead", "dbWrite"}
            -> setupDatabaseNext(p, cfg)
      [] OTHER -> generateInterceptorsNext(p)

AwaitedExceptModuleGenerator(p) == p # "moduleGen"

\* Every call of an asynchronous operation is written `await f(...)`.
Awaited(p) == TRUE

(***************************************************************************)
(* What a run reports: console.error in the two catch blocks, the rejected *)
(* promise carrying the error of the failed operation, console.log of the  *)
(* success line.                                                           *)
(***************************************************************************)
NoOutcome == [kind |-> "pending", label |-> "", module |-> "", cause |-> <<>>]

report(p, e, label, moduleName) ==
    IF ~e.ok
    THEN [kind |-> "rejected", label |-> label, module |-> moduleName,
          cause |-> <<e.op, e.arg[1]>>]
    ELSE IF p = "Done"
    THEN [kind |-> "success", label |-> "", module |-> "", cause |-> <<>>]
    ELSE outcome

(***************************************************************************)
(* generateApp                                                             *)
(***************************************************************************)
Init ==
    /\ config \in Configs
    /\ pc = "ensureAppDir"
    /\ idx = 1
    /\ log = <<>>
    /\ exists = {}
    /\ scaffold = <<>>
    /\ appModule = <<>>
    /\ content = <<>>
    /\ configFile = <<>>
    /\ interceptorFiles = [response |-> "absent", error |-> "absent"]
    /\ inflight = {}
    /\ outcome = NoOutcome
    /\ src = <<>>
    /\ out = <<>>
    /\ applied = "none"

PatchIdle == UNCHANGED <<src, out, applied>>

\* f(...) of `await f(...)`: the operation is started; control stays at the
\* await until it settles.
StartOperation ==
    /\ pc \in Steps
    /\ pc \notin inflight
    /\ inflight' = inflight \cup {pc}
    /\ pc' = IF Awaited(pc) THEN pc ELSE NextStep(pc, config, idx)
    /\ UNCHANGED <<config, idx, log, exists, scaffold, appModule, content,
                   configFile, interceptorFiles, outcome>>
    /\ PatchIdle

\* await fs.ensureDir(appDir)
EnsureAppDir ==
    /\ pc = "ensureAppDir"
    /\ pc \in inflight
    /\ inflight' = inflight \ {pc}
    /\ \E ok \in BOOLEAN :
         /\ log' = Append(log, Op("Init", "ensureDir", <<"appDir">>, "-", ok))
         /\ exists' = IF ok THEN exists \cup {"appDir"} ELSE exists
         /\ pc' = Await(ok, "nestNew")
         /\ outcome' = report(pc', log'[Len(log')], "", "")
    /\ UNCHANGED <<config, idx, scaffold, appModule, content, configFile,
                   interceptorFiles>>
    /\ PatchIdle

\* generateBaseStructure: nest new <appName> in the parent directory
GenerateBaseStructure ==
    /\ pc = "nestNew"
    /\ pc \in inflight
    /\ inflight' = inflight \ {pc}
    /\ \E ok \in BOOLEAN :
         /\ log' = Append(log, Op("BaseStructure", "exec", <<"nest new">>, "parentDir", ok))
         /\ pc' = baseStructureOutcome(ok, afterBaseStructure(config))
         /\ outcome' = report(pc', log'[Len(log')], "Error generating base structure:", "")
         /\ IF ok
            THEN \E t \in AppModuleTemplates :
                    /\ scaffold' = t
                    /\ appModule' = t
                    /\ exists' = exists \cup {"src/app.module.ts"}
            ELSE UNCHANGED <<scaffold, appModule, exists>>
    /\ UNCHANGED <<config, idx, content, configFile, interceptorFiles>>
    /\ PatchIdle

\* generateModule: await fs.ensureDir(modulesDir)
ModuleEnsureDir ==
    /\ pc = "moduleEnsureDir"
    /\ pc \in inflight
    /\ inflight' = inflight \ {pc}
    /\ \E ok \in BOOLEAN :
         /\ log' = Append(log, Op("ModuleGeneration", "ensureDir", <<"src/modules">>, "-", ok))
         /\ exists' = IF ok THEN exists \cup {"src/modules"} ELSE exists
         /\ pc' = Await(ok, "moduleGen")
         /\ outcome' = report(pc', log'[Len(log')], "", "")
    /\ UNCHANGED <<config, idx, scaffold, appModule, content, configFile,
                   interceptorFiles>>
    /\ PatchIdle

GenerateModuleWithRollback ==
    /\ pc = "moduleGen"
    /\ pc \in inflight
    /\ inflight' = inflight \ {pc}
    /\ \E ok \in BOOLEAN :
         /\ log' = Append(log, Op("ModuleGeneration", "exec",
                                  <<"nest g resource", config.modules[idx]>>,
                                  "appDir", ok))
         /\ exists' = IF ok THEN exists \cup {ModulePath(config.modules[idx])}
                      ELSE {}
         /\ appModule' = IF ok THEN appModule ELSE <<>>
         /\ pc' = moduleOutcome(ok, afterModule(config, idx))
         /\ outcome' = report(pc', log'[Len(log')], "Error generating module", config.modules[idx])
         /\ idx' = IF ok THEN idx + 1 ELSE idx
    /\ UNCHANGED <<config, scaffold, content, configFile, interceptorFiles>>
    /\ PatchIdle

\* generateModule: nest g resource modules/<moduleName>
GenerateModule ==
    /\ pc = "moduleGen"
    /\ pc \in inflight
    /\ inflight' = inflight \ {pc}
    /\ \E ok \in BOOLEAN :
         /\ log' = Append(log, Op("ModuleGeneration", "exec",
                                  <<"nest g resource", config.modules[idx]>>,
                                  "appDir", ok))
         /\ exists' = IF ok THEN exists \cup {ModulePath(config.modules[idx])}
                      ELSE exists
         /\ pc' = moduleOutcome(ok, afterModule(config, idx))
         /\ outcome' = report(pc', log'[Len(log')], "Error generating module", config.modules[idx])
         /\ idx' = IF ok THEN idx + 1 ELSE idx
    /\ UNCHANGED <<config, scaffold, appModule, content, configFile,
                   interceptorFiles>>
    /\ PatchIdle

(***************************************************************************)
(* setupDatabase                                                           *)
(***************************************************************************)
\* installDependencies(appDir, getDatabaseDependencies(database, orm))
InstallDependencies ==
    /\ pc = "install"
    /\ pc \in inflight
    /\ inflight' = inflight \ {pc}
    /\ \E ok \in BOOLEAN :
         /\ log' = Append(log,
                Op("DatabaseSetup", "exec",
                   <<"npm install">>
                     \o getDatabaseDependencies(config.database, config.orm),
                   "appDir", ok))
         /\ exists' = IF ok THEN exists \cup {"node_modules"} ELSE exists
         /\ pc' = Await(ok, setupDatabaseNext("install", config))
         /\ outcome' = report(pc', log'[Len(log')], "", "")
    /\ UNCHANGED <<config, idx, scaffold, appModule, content, configFile,
                   interceptorFiles>>
    /\ PatchIdle

\* createDatabaseConfig: await fs.ensureDir(configDir)
ConfigEnsureDir ==
    /\ pc = "configEnsureDir"
    /\ pc \in inflight
    /\ inflight' = inflight \ {pc}
    /\ \E ok \in BOOLEAN :
         /\ log' = Append(log, Op("DatabaseSetup", "ensureDir", <<"src/config">>, "-", ok))
         /\ exists' = IF ok THEN exists \cup {"src/config"} ELSE exists
         /\ pc' = Await(ok, setupDatabaseNext("configEnsureDir", config))
         /\ outcome' = report(pc', log'[Len(log')], "", "")
    /\ UNCHANGED <<config, idx, scaffold, appModule, content, configFile,
                   interceptorFiles>>
    /\ PatchIdle

\* createDatabaseConfig: await fs.writeFile(configPath, configContent)
WriteDatabaseConfig ==
    /\ pc = "configWrite"
    /\ pc \in inflight
    /\ inflight' = inflight \ {pc}
    /\ \E ok \in BOOLEAN :
         /\ ok => "src/config" \in exists
         /\ log' = Append(log, Op("DatabaseSetup", "writeFile",
                                  <<"src/config/database.config.ts">>, "-", ok))
         /\ IF ok
            THEN /\ configFile' = configContentFor(config.database, config.orm)
                 /\ exists' = exists \cup {"src/config/database.config.ts"}
            ELSE UNCHANGED <<configFile, exists>>
         /\ pc' = Await(ok, setupDatabaseNext("configWrite", config))
         /\ outcome' = report(pc', log'[Len(log')], "", "")
    /\ UNCHANGED <<config, idx, scaffold, appModule, content, interceptorFiles>>
    /\ PatchIdle

\* updateAppModuleForDatabase: content = await fs.readFile(appModulePath)
ReadAppModuleForDatabase ==
    /\ pc = "dbRead"
    /\ pc \in inflight
    /\ inflight' = inflight \ {pc}
    /\ \E ok \in BOOLEAN :
         /\ ok => "src/app.module.ts" \in exists
         /\ log' = Append(log, Op("DatabaseSetup", "readFile", <<"src/app.module.ts">>, "-", ok))
         /\ content' = IF ok THEN appModule ELSE content
         /\ pc' = Await(ok, setupDatabaseNext("dbRead", config))
         /\ outcome' = report(pc', log'[Len(log')], "", "")
    /\ UNCHANGED <<config, idx, exists, scaffold, appModule, configFile,
                   interceptorFiles>>
    /\ PatchIdle

\* updateAppModuleForDatabase: prepend, replace, await fs.writeFile
WriteAppModuleForDatabase ==
    /\ pc = "dbWrite"
    /\ pc \in inflight
    /\ inflight' = inflight \ {pc}
    /\ \E ok \in BOOLEAN :
         /\ log' = Append(log, Op("DatabaseSetup", "writeFile", <<"src/app.module.ts">>, "-", ok))
         /\ appModule' = IF ok THEN patchForDatabase(content, config.orm)
                         ELSE appModule
         /\ pc' = Await(ok, setupDatabaseNext("dbWrite", config))
         /\ outcome' = report(pc', log'[Len(log')], "", "")
    /\ UNCHANGED <<config, idx, exists, scaffold, content, configFile,
                   interceptorFiles>>
    /\ PatchIdle

(***************************************************************************)
(* generateInterceptors                                                    *)
(***************************************************************************)
\* await fs.ensureDir(interceptorsDir)
InterceptorsEnsureDir ==
    /\ pc = "icEnsureDir"
    /\ pc \in inflight
    /\ inflight' = inflight \ {pc}
    /\ \E ok \in BOOLEAN :
         /\ log' = Append(log,
                Op("InterceptorSetup", "ensureDir", <<"src/common/interceptors">>, "-", ok))
         /\ exists' = IF ok THEN exists \cup {"src/common/interceptors"}
                      ELSE exists
         /\ pc' = Await(ok, generateInterceptorsNext("icEnsureDir"))
         /\ outcome' = report(pc', log'[Len(log')], "", "")
    /\ UNCHANGED <<config, idx, scaffold, appModule, content, configFile,
                   interceptorFiles>>
    /\ PatchIdle

\* nest g interceptor common/interceptors/response --no-spec
GenerateResponseInterceptor ==
    /\ pc = "icGenResponse"
    /\ pc \in inflight
    /\ inflight' = inflight \ {pc}
    /\ \E ok \in BOOLEAN :
         /\ log' = Append(log,
                Op("InterceptorSetup", "exec", <<"nest g interceptor", "response">>, "appDir", ok))
         /\ interceptorFiles' =
                IF ok THEN [interceptorFiles EXCEPT !.response = "generated"]
                ELSE interceptorFiles
         /\ pc' = Await(ok, generateInterceptorsNext("icGenResponse"))
         /\ outcome' = report(pc', log'[Len(log')], "", "")
    /\ UNCHANGED <<config, idx, exists, scaffold, appModule, content,
                   configFile>>
    /\ PatchIdle

\* nest g interceptor common/interceptors/error --no-spec
GenerateErrorInterceptor ==
    /\ pc = "icGenError"
    /\ pc \in inflight
    /\ inflight' = inflight \ {pc}
    /\ \E ok \in BOOLEAN :
         /\ log' = Append(log,
                Op("InterceptorSetup", "exec", <<"nest g interceptor", "error">>, "appDir", ok))
         /\ interceptorFiles' =
                IF ok THEN [interceptorFiles EXCEPT !.error = "generated"]
                ELSE interceptorFiles
         /\ pc' = Await(ok, generateInterceptorsNext("icGenError"))
         /\ outcome' = report(pc', log'[Len(log')], "", "")
    /\ UNCHANGED <<config, idx, exists, scaffold, appModule, content,
                   configFile>>
    /\ PatchIdle

\* updateResponseInterceptor: await fs.writeFile(filePath, content)
UpdateResponseInterceptor ==
    /\ pc = "icWriteResponse"
    /\ pc \in inflight
    /\ inflight' = inflight \ {pc}
    /\ \E ok \in BOOLEAN :
         /\ log' = Append(log,
                Op("InterceptorSetup", "writeFile", <<"response.interceptor.ts">>, "-", ok))
         /\ interceptorFiles' =
                IF ok THEN [interceptorFiles EXCEPT !.response = "custom"]
                ELSE interceptorFiles
         /\ pc' = Await(ok, generateInterceptorsNext("icWriteResponse"))
         /\ outcome' = report(pc', log'[Len(log')], "", "")
    /\ UNCHANGED <<config, idx, exists, scaffold, appModule, content,
                   configFile>>
    /\ PatchIdle

\* updateErrorInterceptor: await fs.writeFile(filePath, content)
UpdateErrorInterceptor ==
    /\ pc = "icWriteError"
    /\ pc \in inflight
    /\ inflight' = inflight \ {pc}
    /\ \E ok \in BOOLEAN :
         /\ log' = Append(log,
                Op("InterceptorSetup", "writeFile", <<"error.interceptor.ts">>, "-", ok))
         /\ interceptorFiles' =
                IF ok THEN [interceptorFiles EXCEPT !.error = "custom"]
                ELSE interceptorFiles
         /\ pc' = Await(ok, generateInterceptorsNext("icWriteError"))
         /\ outcome' = report(pc', log'[Len(log')], "", "")
    /\ UNCHANGED <<config, idx, exists, scaffold, appModule, content,
                   configFile>>
    /\ PatchIdle

\* updateAppModuleForInterceptors: content = await fs.readFile(appModulePath)
ReadAppModuleForInterceptors ==
    /\ pc = "icRead"
    /\ pc \in inflight
    /\ inflight' = inflight \ {pc}
    /\ \E ok \in BOOLEAN :
         /\ ok => "src/app.module.ts" \in exists
         /\ log' = Append(log, Op("InterceptorSetup", "readFile", <<"src/app.module.ts">>, "-", ok))
         /\ content' = IF ok THEN appModule ELSE content
         /\ pc' = Await(ok, generateInterceptorsNext("icRead"))
         /\ outcome' = report(pc', log'[Len(log')], "", "")
    /\ UNCHANGED <<config, idx, exists, scaffold, appModule, configFile,
                   interceptorFiles>>
    /\ PatchIdle

\* updateAppModuleForInterceptors: prepend, replace, await fs.writeFile
WriteAppModuleForInterceptors ==
    /\ pc = "icWrite"
    /\ pc \in inflight
    /\ inflight' = inflight \ {pc}
    /\ \E ok \in BOOLEAN :
         /\ log' = Append(log, Op("InterceptorSetup", "writeFile", <<"src/app.module.ts">>, "-", ok))
         /\ appModule' = IF ok THEN patchForInterceptors(content) ELSE appModule
         /\ pc' = Await(ok, generateInterceptorsNext("icWrite"))
         /\ outcome' = report(pc', log'[Len(log')], "", "")
    /\ UNCHANGED <<config, idx, exists, scaffold, content, configFile,
                   interceptorFiles>>
    /\ PatchIdle

Next ==
    \/ StartOperation
    \/ EnsureAppDir
    \/ GenerateBaseStructure
    \/ ModuleEnsureDir
    \/ GenerateModule
    \/ InstallDependencies
    \/ ConfigEnsureDir
    \/ WriteDatabaseConfig
    \/ ReadAppModuleForDatabase
    \/ WriteAppModuleForDatabase
    \/ InterceptorsEnsureDir
    \/ GenerateResponseInterceptor
    \/ GenerateErrorInterceptor
    \/ UpdateResponseInterceptor
    \/ UpdateErrorInterceptor
    \/ ReadAppModuleForInterceptors
    \/ WriteAppModuleForInterceptors

Spec == Init /\ [][Next]_vars

(***************************************************************************)
(* The two text patches applied on their own to every source of up to      *)
(* MaxSrcLen tokens.                                                       *)
(***************************************************************************)
InitPatch ==
    /\ config = [modules |-> <<>>, database |-> "Postgres", orm |-> "TypeORM",
                 interceptors |-> TRUE]
    /\ pc = "patch"
    /\ idx = 1
    /\ log = <<>>
    /\ exists = {}
    /\ scaffold = <<>>
    /\ appModule = <<>>
    /\ content = <<>>
    /\ configFile = <<>>
    /\ interceptorFiles = [response |-> "absent", error |-> "absent"]
    /\ inflight = {}
    /\ outcome = NoOutcome
    /\ src \in Sources
    /\ out = <<>>
    /\ applied = "none"

PipelineIdle ==
    UNCHANGED <<config, idx, log, exists, scaffold, appModule, content,
                configFile, interceptorFiles, inflight, outcome>>

ApplyPatchForDatabase ==
    /\ pc = "patch"
    /\ \E orm \in Orms :
         /\ out' = patchForDatabase(src, orm)
         /\ applied' = orm
    /\ pc' = "patched"
    /\ UNCHANGED src
    /\ PipelineIdle

ApplyPatchForInterceptors ==
    /\ pc = "patch"
    /\ out' = patchForInterceptors(src)
    /\ applied' = "interceptors"
    /\ pc' = "patched"
    /\ UNCHANGED src
    /\ PipelineIdle

\* A second run against the same project applies the same patch to the
\* file the first run wrote.
ApplyPatchAgain ==
    /\ pc = "patched"
    /\ out' = IF applied \in Orms THEN patchForDatabase(out, applied)
              ELSE patchForInterceptors(out)
    /\ pc' = "patchedTwice"
    /\ UNCHANGED <<src, applied>>
    /\ PipelineIdle

NextPatch ==
    \/ ApplyPatchForDatabase
    \/ ApplyPatchForInterceptors
    \/ ApplyPatchAgain

\* Every external operation eventually returns, and the event loop then
\* resumes the awaiting function.
FairSpec == Spec /\ WF_vars(Next)

SpecPatch == InitPatch /\ [][NextPatch]_vars

(***************************************************************************)
(* Properties                                                              *)
(***************************************************************************)
Stages(l) == [i \in DOMAIN l |-> l[i].stage]

Repeat(x, n) == [i \in 1..n |-> x]

AllOk(l) == \A i \in DOMAIN l : l[i].ok

FailedOnlyLast(l) == \A i \in DOMAIN l : ~l[i].ok => i = Len(l)

\* The stage of every external operation of a run in which nothing fails.
ExpectedStages(cfg) ==
    <<"Init", "BaseStructure">>
      \o Repeat("ModuleGeneration", 2 * Len(cfg.modules))
      \o Repeat("DatabaseSetup", 5)
      \o (IF cfg.interceptors THEN Repeat("InterceptorSetup", 7) ELSE <<>>)

\* C1: the operations of a run follow the stage order Init, BaseStructure,
\* ModuleGeneration, DatabaseSetup, InterceptorSetup (only with
\* interceptors), Done; a failed operation is the last operation of the
\* run, and a run with a failed operation is Failed, never Done.
C1_StagesInOrderFailFast ==
    /\ IsPrefix(Stages(log), ExpectedStages(config))
    /\ FailedOnlyLast(log)
    /\ ~AllOk(log) => pc = "Failed"
    /\ pc = "Failed" => ~AllOk(log)
    /\ pc = "Done" => Stages(log) = ExpectedStages(config)

C1_Witness ==
    /\ pc = "Failed"
    /\ config.interceptors
    /\ Len(config.modules) = 2
    /\ log[Len(log)].stage = "ModuleGeneration"
    /\ ~log[Len(log)].ok

IsModuleCall(e) == e.op = "exec" /\ e.arg[1] = "nest g resource"

ModuleCalls == SelectSeq(log, IsModuleCall)

ModuleCallNames == [i \in DOMAIN ModuleCalls |-> ModuleCalls[i].arg[2]]

PastModuleGeneration ==
    \E i \in DOMAIN log : log[i].stage \in {"DatabaseSetup", "InterceptorSetup"}

\* C2: the generator calls for modules are the entries of config.modules
\* in array order, one call per entry; a call is made only after all
\* earlier ones succeeded, a failed call is the last one, and all have been
\* made before any later stage acts.
C2_OneCallPerModuleInOrder ==
    /\ IsPrefix(ModuleCallNames, config.modules)
    /\ FailedOnlyLast(ModuleCalls)
    /\ ~AllOk(ModuleCalls) => pc = "Failed"
    /\ (PastModuleGeneration \/ pc = "Done") =>
          /\ ModuleCallNames = config.modules
          /\ AllOk(ModuleCalls)

C2_Witness ==
    /\ config.modules = <<"users", "orders">>
    /\ pc = "Failed"
    /\ Len(ModuleCalls) = 1
    /\ ModuleCalls[1].arg[2] = "users"
    /\ ~ModuleCalls[1].ok

HasBlock(s, kw) == MatchStarts(s, kw) # {}

LastOp == log[Len(log)]

PatchJustAttempted(st) ==
    /\ log # <<>>
    /\ LastOp.stage = st
    /\ LastOp.op = "writeFile"
    /\ LastOp.arg = <<"src/app.module.ts">>

PatchKeyword(st) == IF st = "DatabaseSetup" THEN "imports:" ELSE "providers:"

\* C3: when the root module read by a patch step has no block for the
\* step's keyword ("imports:" in DatabaseSetup, "providers:" in
\* InterceptorSetup), the step fails, so the run is Failed and not Done, and
\* the root module file still holds the text that was read.
C3_MissingAnchorFailsAndLeavesFile ==
    \A st \in {"DatabaseSetup", "InterceptorSetup"} :
        (PatchJustAttempted(st) /\ ~HasBlock(content, PatchKeyword(st)))
            => (pc = "Failed" /\ appModule = content)

\* The "]" that closes the bracket opened at position b, 0 when there is none.
RECURSIVE CloserFrom(_, _, _)
CloserFrom(s, k, depth) ==
    IF k > Len(s) THEN 0
    ELSE IF s[k] = "[" THEN CloserFrom(s, k + 1, depth + 1)
    ELSE IF s[k] = "]"
         THEN (IF depth = 1 THEN k ELSE CloserFrom(s, k + 1, depth - 1))
    ELSE CloserFrom(s, k + 1, depth)

BlockCloser(s, kw) == CloserFrom(s, OpenAt(s, Min(MatchStarts(s, kw))) + 1, 1)

InsertBefore(s, k, text) == SubSeq(s, 1, k - 1) \o text \o SubSeq(s, k, Len(s))

DbInsertion(orm) ==
    <<"nl", " ", " ", " ", " ">> \o moduleImport(orm) \o <<"nl", " ", " ">>

InterceptorInsertion == providerStatements \o <<"nl", " ", " ">>

\* C4: for a source with a keyword block (entries with brackets of their
\* own and any whitespace after the colon included), the patched text is the
\* import statement followed by the source with the insertion text placed
\* immediately before the closing bracket of the first block, every other
\* character unchanged.
C4_OnlyInsertionBeforeBlockCloser ==
    /\ (pc = "patched" /\ applied \in Orms /\ HasBlock(src, "imports:")
          /\ BlockCloser(src, "imports:") # 0)
        => out = prependImport(DbImportStatement(applied),
                    InsertBefore(src, BlockCloser(src, "imports:"),
                                 DbInsertion(applied)))
    /\ (pc = "patched" /\ applied = "interceptors" /\ HasBlock(src, "providers:")
          /\ BlockCloser(src, "providers:") # 0)
        => out = prependImport(InterceptorImportStatement,
                    InsertBefore(src, BlockCloser(src, "providers:"),
                                 InterceptorInsertion))

IsInstallCall(e) == e.op = "exec" /\ e.arg[1] = "npm install"

InstallCalls == SelectSeq(log, IsInstallCall)

Installed(e) == Range(Tail(e.arg))

DriverOf(database) ==
    CASE database = "Postgres" -> "pg"
      [] database = "MongoDB" -> "mongodb"
      [] database = "MySQL" -> "mysql2"

\* C5: the packages passed to the installer include the driver of the chosen
\* database, except for MongoDB with Mongoose; for Postgres with TypeORM they
\* include the TypeORM packages and the Postgres driver.
C5_DriverInstalled ==
    \A i \in DOMAIN InstallCalls :
        /\ ~(config.database = "MongoDB" /\ config.orm = "Mongoose")
              => DriverOf(config.database) \in Installed(InstallCalls[i])
        /\ (config.database = "Postgres" /\ config.orm = "TypeORM")
              => {"typeorm", "@nestjs/typeorm", "pg"}
                    \subseteq Installed(InstallCalls[i])

ConfigWritten == "src/config/database.config.ts" \in exists

\* C6: for TypeORM and Sequelize the port of the written configuration is
\* 5432 when the database is Postgres and 3306 otherwise.
C6_PortByDatabase ==
    (ConfigWritten /\ config.orm \in {"TypeORM", "Sequelize"})
        => /\ "port" \in Keys(configFile)
           /\ ValueOf(configFile, "port") =
                 (IF config.database = "Postgres" THEN "5432" ELSE "3306")

OrmPackageNames ==
    {"typeorm", "@nestjs/typeorm", "mongoose", "@nestjs/mongoose",
     "sequelize", "@nestjs/sequelize", "sequelize-typescript"}

DriverPackageNames == {"pg", "mongodb", "mysql2"}

\* C7: the dependency list has no duplicates, holds the selected ORM's
\* packages, and every ORM package precedes every database driver; for
\* MongoDB it holds "mongodb" with TypeORM and Sequelize, not with Mongoose.
C7_DependencyList ==
    \A n \in DOMAIN InstallCalls :
        LET deps == Tail(InstallCalls[n].arg)
        IN  /\ NoDuplicates(deps)
            /\ Range(deps) \subseteq OrmPackageNames \cup DriverPackageNames
            /\ Range(deps) \cap OrmPackageNames # {}
            /\ \A i, j \in DOMAIN deps :
                  (deps[i] \in OrmPackageNames /\ deps[j] \in DriverPackageNames)
                      => i < j
            /\ config.database = "MongoDB" =>
                  ("mongodb" \in Range(deps) <=> config.orm # "Mongoose")

C7_Witness ==
    /\ Len(InstallCalls) = 1
    /\ config.database = "MongoDB"
    /\ config.orm = "Mongoose"
    /\ InstallCalls[1].ok

IsDatabaseOp(e) == e.stage = "DatabaseSetup"

DatabaseOps ==
    LET l == SelectSeq(log, IsDatabaseOp)
    IN  [i \in DOMAIN l |-> <<l[i].op, l[i].arg[1]>>]

ExpectedDatabaseOps ==
    << <<"exec", "npm install">>,
       <<"ensureDir", "src/config">>,
       <<"writeFile", "src/config/database.config.ts">>,
       <<"readFile", "src/app.module.ts">>,
       <<"writeFile", "src/app.module.ts">> >>

ReferencesDatabaseConfig(text) == "import databaseConfig" \in Range(text)

\* C8: DatabaseSetup performs install, config directory, config file, root
\* module read and root module write in that order, each fatal on failure;
\* the installer is called at most once, in the application directory;
\* whenever the root module references the database config, the config file
\* exists and the installer call has succeeded.
C8_DatabaseSetupOrder ==
    /\ IsPrefix(DatabaseOps, ExpectedDatabaseOps)
    /\ FailedOnlyLast(log)
    /\ Len(InstallCalls) <= 1
    /\ \A i \in DOMAIN InstallCalls :
          /\ InstallCalls[i].cwd = "appDir"
          /\ Tail(InstallCalls[i].arg)
                = getDatabaseDependencies(config.database, config.orm)
    /\ pc = "Done" => Len(InstallCalls) = 1
    /\ ReferencesDatabaseConfig(appModule) =>
          /\ ConfigWritten
          /\ configFile # <<>>
          /\ Len(InstallCalls) = 1
          /\ InstallCalls[1].ok

C8_Witness ==
    /\ ReferencesDatabaseConfig(appModule)
    /\ HasBlock(scaffold, "imports:")
    /\ ConfigWritten

Registers(text, registration) == registration \in Range(text)

BeforeInterceptorPatch ==
    pc \in {"icEnsureDir", "icGenResponse", "icGenError", "icWriteResponse",
            "icWriteError", "icRead"}

\* C9: the root module holds both interceptor registrations or neither, in
\* every state; and no step of InterceptorSetup before the final write, nor
\* a step that fails, changes the root module.
C9_BothRegistrationsOrNeither ==
    /\ [](Registers(appModule, ResponseRegistration)
            <=> Registers(appModule, ErrorRegistration))
    /\ [][(BeforeInterceptorPatch \/ pc' = "Failed") => appModule' = appModule]_vars

C9_Witness ==
    /\ pc = "Done"
    /\ Registers(appModule, ResponseRegistration)
    /\ Registers(appModule, ErrorRegistration)

Present(f) == interceptorFiles[f] # "absent"

\* C10 as stated: a run with interceptors that has ended, in Done or in
\* Failed, has both interceptor files or neither.
C10_NoPartialPairAtAnyEnd ==
    (config.interceptors /\ Terminal) => (Present("response") <=> Present("error"))

\* C10 amended: a run with interceptors that ends in Done has both
\* interceptor files, and the error interceptor file is never present
\* without the response interceptor file.
C10_BothAtDoneErrorNeverAlone ==
    /\ (config.interceptors /\ pc = "Done")
          => (Present("response") /\ Present("error"))
    /\ Present("error") => Present("response")

C10_Witness ==
    /\ config.interceptors
    /\ pc = "Failed"
    /\ Present("response")
    /\ ~Present("error")

Occurrences(text, token) == Cardinality({i \in DOMAIN text : text[i] = token})

\* Each prepend leaves one copy of its import statement at the top.
DatabasePrepends == Occurrences(appModule, "import databaseConfig")

InterceptorPrepends == Occurrences(appModule, "import APP_INTERCEPTOR")

\* C11 as stated: the root module receives at most one import prepend in
\* a run, whatever the configuration.
C11_AtMostOnePrepend == DatabasePrepends + InterceptorPrepends <= 1

\* C11 amended: the root module receives at most one prepend of the ORM
\* import, in DatabaseSetup, and at most one prepend of the interceptor
\* imports, in InterceptorSetup and only with interceptors; a run with
\* interceptors that is Done has made both.
C11_OnePrependPerStage ==
    /\ DatabasePrepends <= 1
    /\ InterceptorPrepends <= 1
    /\ InterceptorPrepends = 1 => (config.interceptors /\ DatabasePrepends = 1)
    /\ pc = "Done" =>
          /\ DatabasePrepends = 1
          /\ InterceptorPrepends = (IF config.interceptors THEN 1 ELSE 0)

C11_Witness ==
    /\ pc = "Done"
    /\ DatabasePrepends = 1
    /\ InterceptorPrepends = 1

\* The stage names of the failure taxonomy.
FailureStage(e) ==
    CASE e.stage = "Init" -> "directory"
      [] e.stage = "BaseStructure" -> "base structure"
      [] e.stage = "ModuleGeneration" -> "module generation"
      [] e.stage = "DatabaseSetup" /\ e.op = "exec" -> "dependency install"
      [] e.stage = "DatabaseSetup" /\ e.arg[1] \in
            {"src/config", "src/config/database.config.ts"} -> "config write"
      [] e.stage = "DatabaseSetup" -> "patch"
      [] OTHER -> "interceptor setup"

\* The stage a reported failure names.
StageNamed(o) ==
    CASE o.label = "Error generating base structure:" -> "base structure"
      [] o.label = "Error generating module" -> "module generation"
      [] OTHER -> "none"

\* C12: a failed run has reported a failure that names the stage of the
\* failed operation and carries its cause, and for a failure in
\* ModuleGeneration also the name of the module being generated.
C12_FailureNamesStageAndCause ==
    pc = "Failed" =>
        /\ outcome.kind = "rejected"
        /\ outcome.cause = <<LastOp.op, LastOp.arg[1]>>
        /\ StageNamed(outcome) = FailureStage(LastOp)
        /\ LastOp.stage = "ModuleGeneration" => outcome.module = config.modules[idx]

IsInterceptorOp(e) == e.stage = "InterceptorSetup"

InterceptorOps ==
    LET l == SelectSeq(log, IsInterceptorOp)
    IN  [i \in DOMAIN l |-> <<l[i].op, l[i].arg[Len(l[i].arg)]>>]

ExpectedInterceptorOps ==
    << <<"ensureDir", "src/common/interceptors">>,
       <<"exec", "response">>,
       <<"exec", "error">>,
       <<"writeFile", "response.interceptor.ts">>,
       <<"writeFile", "error.interceptor.ts">>,
       <<"readFile", "src/app.module.ts">>,
       <<"writeFile", "src/app.module.ts">> >>

\* The first providers block of a text as the patch sees it, <<>> if none.
ProvidersBlock(text) ==
    IF ~HasBlock(text, "providers:") THEN <<>>
    ELSE LET i == Min(MatchStarts(text, "providers:"))
         IN  SubSeq(text, i, MatchEnd(text, OpenAt(text, i)))

\* C13: the operations of InterceptorSetup are, in order, ensure the
\* interceptors directory, generate response, generate error, overwrite
\* response, overwrite error, read and write the root module, each made only
\* after the previous one succeeded; without interceptors none is made, and
\* at Done no interceptor file exists and the providers array is as
\* `nest new` left it.
C13_InterceptorStepsInOrder ==
    /\ IsPrefix(InterceptorOps, ExpectedInterceptorOps)
    /\ FailedOnlyLast(log)
    /\ (config.interceptors /\ pc = "Done")
          => InterceptorOps = ExpectedInterceptorOps
    /\ ~config.interceptors =>
          /\ InterceptorOps = <<>>
          /\ ~Present("response") /\ ~Present("error")
          /\ "src/common/interceptors" \notin exists
          /\ ~Registers(appModule, ResponseRegistration)
          /\ ~Registers(appModule, ErrorRegistration)
          /\ pc = "Done" => ProvidersBlock(appModule) = ProvidersBlock(scaffold)

C13_Witness ==
    /\ config.interceptors
    /\ pc = "Done"
    /\ InterceptorOps = ExpectedInterceptorOps
    /\ interceptorFiles = [response |-> "custom", error |-> "custom"]

IsNotWhitespace(token) == token \notin Whitespace

StripWhitespace(s) == SelectSeq(s, IsNotWhitespace)

\* The pieces of an array literal's inside between its commas.
RECURSIVE SplitAtCommas(_)
SplitAtCommas(s) ==
    IF "," \notin Range(s) THEN <<StripWhitespace(s)>>
    ELSE LET i == Min({k \in DOMAIN s : s[k] = ","})
         IN  <<StripWhitespace(SubSeq(s, 1, i - 1))>>
               \o SplitAtCommas(SubSeq(s, i + 1, Len(s)))

\* The elements of an array literal: a comma before "]" ends the last
\* element, any other empty piece is an elided element (a hole).
ArrayElements(inner) ==
    LET pieces == SplitAtCommas(inner)
    IN  IF pieces[Len(pieces)] = <<>>
        THEN SubSeq(pieces, 1, Len(pieces) - 1)
        ELSE pieces

ImportsInner(text) ==
    LET b == OpenAt(text, Min(MatchStarts(text, "imports:")))
    IN  SubSeq(text, b + 1, MatchEnd(text, b) - 1)

\* C14: after the database patch the elements of the imports array are the
\* original elements followed by exactly one new element, the ORM's forRoot
\* call, with no elided element added; also for an empty array and for an
\* array that ends with a comma.
C14_ImportsGainOneElement ==
    (pc = "patched" /\ applied \in Orms
        /\ HasBlock(src, "imports:")
        /\ "[" \notin Range(ImportsInner(src)))
      => ArrayElements(ImportsInner(out))
           = ArrayElements(ImportsInner(src)) \o << <<ForRootCall(applied)>> >>

FileSystem == <<exists, appModule, configFile, interceptorFiles>>

\* C15: no rollback. The step on which a run fails leaves every directory
\* and file as the completed steps left them, no step ever removes a path,
\* and the project root, once created, is never deleted.
C15_NoRollback ==
    [][/\ pc' = "Failed" => FileSystem' = FileSystem
       /\ exists \subseteq exists'
       /\ "appDir" \in exists => "appDir" \in exists']_vars

C15_Witness ==
    /\ pc = "Failed"
    /\ ~log[Len(log)].ok
    /\ {"appDir", "src/app.module.ts", "src/config/database.config.ts"}
         \subseteq exists
    /\ configFile # <<>>
    /\ appModule # scaffold

\* C16: at most one external operation is in flight at any point of a run:
\* each is awaited to completion before the next one is started.
C16_AtMostOneInFlight ==
    /\ Cardinality(inflight) <= 1
    /\ inflight \subseteq {pc}

C16_Witness ==
    /\ inflight = {"moduleGen"}
    /\ idx = 2
    /\ Len(ModuleCalls) = 1

ImportTextOf(patch) ==
    IF patch \in Orms THEN DbImportStatement(patch)
    ELSE InterceptorImportStatement

KeywordOf(patch) == IF patch \in Orms THEN "imports:" ELSE "providers:"

PatchOnce(text, patch) ==
    IF patch \in Orms THEN patchForDatabase(text, patch)
    ELSE patchForInterceptors(text)

\* C17: the import prepend is not idempotent. After the same patch is
\* applied twice to a root module, the import text stands twice at the top
\* of the file, the result differs from the once-patched file, and where
\* the patch has no block to insert into the rest is the original content.
C17_PrependNotIdempotent ==
    pc = "patchedTwice" =>
      LET importText == ImportTextOf(applied) \o <<"nl">>
      IN  /\ IsPrefix(importText \o importText, out)
          /\ out # PatchOnce(src, applied)
          /\ ~HasBlock(src, KeywordOf(applied))
               => out = importText \o importText \o src

C17_Witness ==
    /\ pc = "patchedTwice"
    /\ applied = "TypeORM"
    /\ src = <<"imports:", "[", "x", "]">>
    /\ Occurrences(out, "import databaseConfig") = 2

IsModulesEnsure(e) == e.op = "ensureDir" /\ e.arg = <<"src/modules">>

ModulesEnsures == SelectSeq(log, IsModulesEnsure)

\* C18 as stated: the modules subdirectory is ensured once per run, however
\* many modules are generated.
C18_EnsuredOncePerRun == Len(ModulesEnsures) <= 1

\* C18 amended: the modules subdirectory is ensured once per module,
\* immediately before that module's generator call, and not at all when the
\* module list is empty.
C18_EnsuredBeforeEachCall ==
    /\ \A i \in DOMAIN log :
          IsModuleCall(log[i]) =>
             i > 1 /\ IsModulesEnsure(log[i - 1]) /\ log[i - 1].ok
    /\ \A i \in DOMAIN log :
          (IsModulesEnsure(log[i]) /\ i < Len(log)) => IsModuleCall(log[i + 1])
    /\ Len(ModulesEnsures) <= Len(config.modules)
    /\ pc = "Done" => Len(ModulesEnsures) = Len(config.modules)

C18_Witness ==
    /\ pc = "Done"
    /\ Len(config.modules) = 2
    /\ Len(ModulesEnsures) = 2
    /\ Len(ModuleCalls) = 2

\* C19: with Mongoose the written configuration is the connection-URI
\* object, with a uri field and no host or port field, whatever the
\* database; and the written text is determined by the (database, orm)
\* pair: it is the rendering of that pair, the same on every run.
C19_MongooseUriAndDeterministic ==
    ConfigWritten =>
      /\ configFile = configContentFor(config.database, config.orm)
      /\ config.orm = "Mongoose" =>
           /\ "uri" \in Keys(configFile)
           /\ "host" \notin Keys(configFile)
           /\ "port" \notin Keys(configFile)
           /\ \A database \in Databases :
                configContentFor(database, "Mongoose") = configFile

C19_Witness ==
    /\ ConfigWritten
    /\ config.orm = "Mongoose"
    /\ config.database = "MySQL"
    /\ ValueOf(configFile, "uri") = "mongodb://localhost/your_database"

IsGeneratorCall(e) == e.op = "exec" /\ ~IsInstallCall(e)

GeneratorCalls == SelectSeq(log, IsGeneratorCall)

\* C20: when every external operation returns, every run reaches a terminal
\* outcome, Done or Failed, and stays in it; nothing is retried: no
\* operation follows a failed one, at most 1 + |modules| + 2 generator calls
\* and at most one installer call are issued.
C20_TerminatesWithoutRetry ==
    /\ <>Terminal
    /\ [](pc = "Done" => [](pc = "Done"))
    /\ [](pc = "Failed" => [](pc = "Failed"))
    /\ [](/\ FailedOnlyLast(log)
          /\ Len(GeneratorCalls) <= 1 + Len(config.modules) + 2
          /\ Len(InstallCalls) <= 1)

C20_Witness ==
    /\ pc = "Done"
    /\ Len(config.modules) = MaxModules
    /\ config.interceptors
    /\ Len(GeneratorCalls) = 1 + Len(config.modules) + 2
    /\ Len(InstallCalls) = 1

====
